---- MODULE Spec2Model ----
(***************************************************************************)
(* Model of package gumroad (src/main.go, lines 1-199): NewProduct and     *)
(* Product.Verify / Product.doVerify, the license check against the        *)
(* Gumroad API with its retry-on-5xx loop and its classification rules.    *)
(*                                                                         *)
(* One caller owns a Product value p, may reconfigure its public fields    *)
(* between calls (as the tests do) and runs Verify calls one after the     *)
(* other.  A Verify call is cut at its two blocking points: the request    *)
(* in flight (client.Do + io.ReadAll) and the backoff sleep (time.Sleep).  *)
(* The context of the call can be cancelled by the caller at either point. *)
(***************************************************************************)
EXTENDS Integers, Sequences, FiniteSets, TLC

(***************************************************************************)
(* Bounds and program constants                                            *)
(***************************************************************************)

\* largest non-zero timestamp a response carries (0 is time.Time's zero value)
MaxTime == 1

\* const maxRetries = 5
maxRetries == 5

\* time.Duration(try*500) * time.Millisecond
backoffUnit == 500

Times == 0..MaxTime

\* product identifiers handed to NewProduct ("" is the rejected one)
ProductIDs == {"", "product", "other"}

\* license keys handed to Verify ("" is the rejected one)
Keys == {"", "key", "fake-key"}

\* seller identifiers a purchase can carry (read by the Validate hook only)
SellerIDs == {"seller", "evil"}

\* subscription identifiers a purchase can carry
SubscriptionIDs == {"", "xyz"}

\* HTTP status codes the server answers with
Statuses == {200, 404, 500, 503}

(***************************************************************************)
(* Endpoints, certificates and clients                                     *)
(***************************************************************************)

GumroadAPI == "https://api.gumroad.com/v2/licenses/verify"

\* an httptest.NewTLSServer URL: an endpoint presenting the test certificate
TestAPI == "https://127.0.0.1:443"

APIs == {GumroadAPI, TestAPI}

\* the certificate the endpoint behind a URL presents
ServerCert(api) == IF api = GumroadAPI THEN "gumroad-ca" ELSE "httptest-ca"

\* x509.SystemCertPool(): the roots of the operating system
SystemCertPool == {"gumroad-ca"}

\* A client is described by the RootCAs of its tls.Config: the pool is a set
\* of certificates of its own ("snapshot"), a handle on the verifier of the
\* platform ("platform": what x509.SystemCertPool returns on darwin and
\* windows, where certificates are verified by the operating system at each
\* handshake), or nil ("nil": the host's root set is used).

\* the zero *http.Client of Product{}
NilClient == [RootCAs |-> {}, pool |-> "snapshot", Timeout |-> 0]

\* &http.Client{Timeout: time.Minute, Transport: transport} of NewProduct on
\* a host where SystemCertPool returns a copy of the system roots
DefaultClient == [RootCAs |-> SystemCertPool, pool |-> "snapshot", Timeout |-> 60]

\* server.Client() of an httptest TLS server: trusts the test certificate
TestClient == [RootCAs |-> {"httptest-ca"}, pool |-> "snapshot", Timeout |-> 0]

Clients == {DefaultClient, TestClient}

(***************************************************************************)
(* Errors: fmt.Errorf(msg, operand).  cause is the %w / %s string operand, *)
(* bts the string(bts) operand of the "likely gumroad issue" error.        *)
(***************************************************************************)

NoBody ==
  [valid |-> FALSE, raw |-> "", success |-> FALSE, message |-> "",
   refunded |-> FALSE, cancelledAt |-> 0, failedAt |-> 0,
   subscriptionID |-> "", productID |-> "", licenseKey |-> "", sellerID |-> "",
   saleTimestamp |-> 0]

Err(msg, cause) == [msg |-> msg, cause |-> cause, bts |-> NoBody]

Nil == Err("<nil>", "")

ErrProductEmpty == Err("license: product ID cannot be empty", "")

ErrKeyEmpty == Err("license: license key cannot be empty", "")

\* the cause returned as it is: return err
ErrFailedCheckUnwrapped(cause) == Err(cause, "")

ErrFailedCheck(cause) == Err("license: failed check license: %w", cause)

ErrGumroadIssue(bts) ==
  [msg |-> "license: likely gumroad issue: %s", cause |-> "", bts |-> bts]

ErrInvalidLicense(message) == Err("license: invalid license: %s", message)

ErrRefunded == Err("license: license was refunded and is now invalid", "")

ErrCancelled ==
  Err("license: subscription was canceled, license is now invalid", "")

ErrRenewFailed(subscriptionID) ==
  Err("license: failed to renew subscription, please check at https://gumroad.com/subscriptions/%s/manage",
      subscriptionID)

ErrProductMismatch == Err("license: invalid product ID", "")

ErrLicenseMismatch == Err("license: invalid license", "")

ErrInvalidSeller == Err("invalid seller id", "")

\* ctx.Err() of a context in state c
CtxErr(c) ==
  IF c = "canceled" THEN "context canceled" ELSE "context deadline exceeded"

\* failures of the transport that are not caused by the context
NetworkErrors == {"connection refused", "Client.Timeout exceeded"}

TLSError == "x509: certificate signed by unknown authority"

\* the handshake of a client with nil RootCAs on a host whose roots could not
\* be loaded
NoRootsError == "x509: failed to load system roots and no roots provided"

ContextErrors == {"context canceled", "context deadline exceeded"}

(***************************************************************************)
(* Response bodies.  A body either is JSON of the response schema (valid,  *)
(* with the fields json.Unmarshal reads) or is not (raw text).             *)
(***************************************************************************)

\* bodies that json.Unmarshal rejects
GarbageBodies == {[NoBody EXCEPT !.raw = r] : r \in {"some error", "<html>"}}

\* responses of the extended schema.  The API sets message on a failed lookup
\* only; a failed lookup carries no subscription, seller or sale of its own,
\* and a purchase carries the time of its sale
ExtendedBodies ==
  {b \in [valid : {TRUE}, raw : {""}, success : BOOLEAN,
          message : {"", "some error"}, refunded : BOOLEAN,
          cancelledAt : Times, failedAt : Times,
          subscriptionID : SubscriptionIDs, productID : {"product", "other"},
          licenseKey : Keys, sellerID : SellerIDs, saleTimestamp : Times] :
     /\ b.success => b.message = "" /\ b.saleTimestamp = 1
     /\ ~b.success => /\ b.subscriptionID = ""
                      /\ b.sellerID = "seller"
                      /\ b.saleTimestamp = 0}

\* responses of the minimal schema: no product_id, license_key or seller_id
LegacyBodies ==
  {b \in [valid : {TRUE}, raw : {""}, success : BOOLEAN,
          message : {"", "some error"}, refunded : BOOLEAN,
          cancelledAt : Times, failedAt : Times,
          subscriptionID : SubscriptionIDs, productID : {""},
          licenseKey : {""}, sellerID : {""}, saleTimestamp : Times] :
     /\ b.success => b.message = "" /\ b.saleTimestamp = 1
     /\ ~b.success => b.subscriptionID = "" /\ b.saleTimestamp = 0}

JSONBodies == ExtendedBodies \cup LegacyBodies

Bodies == GarbageBodies \cup JSONBodies

\* a body with no purchase state that would fail a built-in check
LooksValid(b) ==
  b.valid /\ b.success /\ ~b.refunded /\ b.cancelledAt = 0 /\ b.failedAt = 0

\* what the server can answer: any body below 500; with a 5xx status an
\* error page or a body that looks like a valid purchase
Responses ==
  {r \in [status : Statuses, bts : Bodies] :
     r.status >= 500 => (~r.bts.valid \/ LooksValid(r.bts))}

\* the zero GumroadResponse
ZeroGumroadResponse ==
  [Success |-> FALSE, Message |-> "",
   Purchase |-> [SellerID |-> "", ProductID |-> "", SubscriptionID |-> "",
                 LicenseKey |-> "", Refunded |-> FALSE, SaleTimestamp |-> 0,
                 SubscriptionCancelledAt |-> 0, SubscriptionFailedAt |-> 0]]

\* a decoder that does not fill Message (a wrong json tag on the field)
UnmarshalNoMessage(bts) ==
  IF bts.valid
  THEN [err |-> "",
        gumroad |->
          [Success |-> bts.success, Message |-> "",
           Purchase |-> [SellerID |-> bts.sellerID,
                         ProductID |-> bts.productID,
                         SubscriptionID |-> bts.subscriptionID,
                         LicenseKey |-> bts.licenseKey,
                         Refunded |-> bts.refunded,
                         SaleTimestamp |-> bts.saleTimestamp,
                         SubscriptionCancelledAt |-> bts.cancelledAt,
                         SubscriptionFailedAt |-> bts.failedAt]]]
  ELSE [err |-> "invalid character", gumroad |-> ZeroGumroadResponse]

\* a decoder with the tag `json:"subscription_failea_dat"` on
\* SubscriptionFailedAt: the field is never filled
UnmarshalFailedAtTypo(bts) ==
  IF bts.valid
  THEN [err |-> "",
        gumroad |->
          [Success |-> bts.success, Message |-> bts.message,
           Purchase |-> [SellerID |-> bts.sellerID,
                         ProductID |-> bts.productID,
                         SubscriptionID |-> bts.subscriptionID,
                         LicenseKey |-> bts.licenseKey,
                         Refunded |-> bts.refunded,
                         SaleTimestamp |-> bts.saleTimestamp,
                         SubscriptionCancelledAt |-> bts.cancelledAt,
                         SubscriptionFailedAt |-> 0]]]
  ELSE [err |-> "invalid character", gumroad |-> ZeroGumroadResponse]

\* json.Unmarshal(bts, &gumroad)
Unmarshal(bts) ==
  IF bts.valid
  THEN [err |-> "",
        gumroad |->
          [Success |-> bts.success, Message |-> bts.message,
           Purchase |-> [SellerID |-> bts.sellerID,
                         ProductID |-> bts.productID,
                         SubscriptionID |-> bts.subscriptionID,
                         LicenseKey |-> bts.licenseKey,
                         Refunded |-> bts.refunded,
                         SaleTimestamp |-> bts.saleTimestamp,
                         SubscriptionCancelledAt |-> bts.cancelledAt,
                         SubscriptionFailedAt |-> bts.failedAt]]]
  ELSE [err |-> "invalid character", gumroad |-> ZeroGumroadResponse]

\* a nil check in place of IsZero: a time.Time value is never nil
IsZeroNever(t) == FALSE

\* time.Time.IsZero
IsZero(t) == t = 0

(***************************************************************************)
(* The Validate hook.  "nil" is the unset hook; "sellerCheck" is the hook  *)
(* of TestMITM, which accepts purchases of one seller only.                *)
(***************************************************************************)

Hooks == {"nil", "sellerCheck"}

\* gp.Validate(gumroad)
Validate(hook, gumroad) ==
  IF gumroad.Purchase.SellerID # "seller" THEN ErrInvalidSeller ELSE Nil

(***************************************************************************)
(* The classification of a decoded response, main.go lines 110-137.        *)
(***************************************************************************)

\* the classification of the minimal schema: no product, license or hook step
ClassifyLegacy(v, k, gumroad) ==
  IF ~gumroad.Success
  THEN ErrInvalidLicense(gumroad.Message)
  ELSE IF gumroad.Purchase.Refunded
  THEN ErrRefunded
  ELSE IF ~IsZero(gumroad.Purchase.SubscriptionCancelledAt)
  THEN ErrCancelled
  ELSE IF ~IsZero(gumroad.Purchase.SubscriptionFailedAt)
  THEN ErrRenewFailed(gumroad.Purchase.SubscriptionID)
  ELSE Nil

\* the cancelled subscription checked before the refund
ClassifyCancelledFirst(v, k, gumroad) ==
  IF ~gumroad.Success
  THEN ErrInvalidLicense(gumroad.Message)
  ELSE IF ~IsZero(gumroad.Purchase.SubscriptionCancelledAt)
  THEN ErrCancelled
  ELSE IF gumroad.Purchase.Refunded
  THEN ErrRefunded
  ELSE IF ~IsZero(gumroad.Purchase.SubscriptionFailedAt)
  THEN ErrRenewFailed(gumroad.Purchase.SubscriptionID)
  ELSE IF gumroad.Purchase.ProductID # v.ProductID
  THEN ErrProductMismatch
  ELSE IF gumroad.Purchase.LicenseKey # k
  THEN ErrLicenseMismatch
  ELSE IF v.Validate # "nil"
  THEN Validate(v.Validate, gumroad)
  ELSE Nil

\* the hook invoked before the product and license comparisons
ClassifyHookEarly(v, k, gumroad) ==
  IF ~gumroad.Success
  THEN ErrInvalidLicense(gumroad.Message)
  ELSE IF gumroad.Purchase.Refunded
  THEN ErrRefunded
  ELSE IF ~IsZero(gumroad.Purchase.SubscriptionCancelledAt)
  THEN ErrCancelled
  ELSE IF ~IsZero(gumroad.Purchase.SubscriptionFailedAt)
  THEN ErrRenewFailed(gumroad.Purchase.SubscriptionID)
  ELSE IF v.Validate # "nil" /\ Validate(v.Validate, gumroad) # Nil
  THEN Validate(v.Validate, gumroad)
  ELSE IF gumroad.Purchase.ProductID # v.ProductID
  THEN ErrProductMismatch
  ELSE IF gumroad.Purchase.LicenseKey # k
  THEN ErrLicenseMismatch
  ELSE Nil

\* the license key compared before the product ID
ClassifyLicenseFirst(v, k, gumroad) ==
  IF ~gumroad.Success
  THEN ErrInvalidLicense(gumroad.Message)
  ELSE IF gumroad.Purchase.Refunded
  THEN ErrRefunded
  ELSE IF ~IsZero(gumroad.Purchase.SubscriptionCancelledAt)
  THEN ErrCancelled
  ELSE IF ~IsZero(gumroad.Purchase.SubscriptionFailedAt)
  THEN ErrRenewFailed(gumroad.Purchase.SubscriptionID)
  ELSE IF gumroad.Purchase.LicenseKey # k
  THEN ErrLicenseMismatch
  ELSE IF gumroad.Purchase.ProductID # v.ProductID
  THEN ErrProductMismatch
  ELSE IF v.Validate # "nil"
  THEN Validate(v.Validate, gumroad)
  ELSE Nil

\* the classification without the comparison of the echoed license key
ClassifyNoLicenseCheck(v, k, gumroad) ==
  IF ~gumroad.Success
  THEN ErrInvalidLicense(gumroad.Message)
  ELSE IF gumroad.Purchase.Refunded
  THEN ErrRefunded
  ELSE IF ~IsZero(gumroad.Purchase.SubscriptionCancelledAt)
  THEN ErrCancelled
  ELSE IF ~IsZero(gumroad.Purchase.SubscriptionFailedAt)
  THEN ErrRenewFailed(gumroad.Purchase.SubscriptionID)
  ELSE IF gumroad.Purchase.ProductID # v.ProductID
  THEN ErrProductMismatch
  ELSE IF v.Validate # "nil"
  THEN Validate(v.Validate, gumroad)
  ELSE Nil

Classify(v, k, gumroad) ==
  IF ~gumroad.Success
  THEN ErrInvalidLicense(gumroad.Message)
  ELSE IF gumroad.Purchase.Refunded
  THEN ErrRefunded
  ELSE IF ~IsZero(gumroad.Purchase.SubscriptionCancelledAt)
  THEN ErrCancelled
  ELSE IF ~IsZero(gumroad.Purchase.SubscriptionFailedAt)
  THEN ErrRenewFailed(gumroad.Purchase.SubscriptionID)
  ELSE IF gumroad.Purchase.ProductID # v.ProductID
  THEN ErrProductMismatch
  ELSE IF gumroad.Purchase.LicenseKey # k
  THEN ErrLicenseMismatch
  ELSE IF v.Validate # "nil"
  THEN Validate(v.Validate, gumroad)
  ELSE Nil

\* whether Classify reaches the call of the hook
ReachesHook(v, k, gumroad) ==
  /\ gumroad.Success
  /\ ~gumroad.Purchase.Refunded
  /\ IsZero(gumroad.Purchase.SubscriptionCancelledAt)
  /\ IsZero(gumroad.Purchase.SubscriptionFailedAt)
  /\ gumroad.Purchase.ProductID = v.ProductID
  /\ gumroad.Purchase.LicenseKey = k
  /\ v.Validate # "nil"

\* a decoding whose error is dropped: the zero response is classified
DecodeIgnoresError(v, k, bts) == Classify(v, k, Unmarshal(bts).gumroad)

\* the part of doVerify that follows a response below 500, lines 105-137
Decode(v, k, bts) ==
  IF Unmarshal(bts).err # ""
  THEN ErrFailedCheck(Unmarshal(bts).err)
  ELSE Classify(v, k, Unmarshal(bts).gumroad)

(***************************************************************************)
(* State                                                                   *)
(***************************************************************************)

VARIABLES
  p,          \* the caller's Product value
  productID,  \* the argument of the caller's last NewProduct call
  newErr,     \* the error NewProduct returned ("none" record before any call)
  pc,         \* "new", "idle", "inflight", "reading", "sleep", "done"
  gp,         \* the receiver of the running Verify call (a copy of p)
  ctx,        \* the context of the call: "live", "canceled", "deadline"
  key,        \* the key of the call
  try,        \* the attempt of the call, doVerify's try parameter
  reqs,       \* the requests the call handed to client.Do, in order
  dialed,     \* how many of them the transport took to the network
  resp,       \* the last response obtained: status and body read
  statuses,   \* the status classes (2 for 2xx, ... 5 for 5xx) of all
              \* responses obtained by the call, in order
  sleeps,     \* the durations (ms) of the time.Sleep calls of the call
  result,     \* the error Verify returned (Nil: no error)
  classified, \* whether the call ran the classification rules
  hookCalls,  \* how often the call invoked the Validate hook
  openBodies, \* response bodies obtained and not closed
  deferred,   \* pending deferred resp.Body.Close() calls
  prevRaw,    \* the text of the error page the attempt before the current
              \* one read ("" if there was none, or it read JSON): bts of
              \* the calling doVerify frame
  remaining,  \* the part (ms) of the running time.Sleep that is still to
              \* pass; 0 when no time.Sleep runs
  host,       \* the host of the process: its platform and its trust store
  captured,   \* the trust store as it was when NewProduct read it
  calls,      \* several callers sharing p: the Verify call of each caller
  server,     \* several callers sharing p: the fixed answer of the server to
              \* a key, or NoResp where it answers as it likes
  first       \* several callers sharing p: the result of the first call with
              \* a key that the server answered throughout

vars ==
  <<p, productID, newErr, pc, gp, ctx, key, try, reqs, dialed, resp, statuses, sleeps,
    result, classified, hookCalls, openBodies, deferred, prevRaw, remaining,
    host, captured, calls, server, first>>

\* the state of the callers that share one Product
sharedVars == <<calls, server, first>>

\* the host and what NewProduct read from it
trustVars == <<host, captured>>

\* a host with the roots `roots` in its store, readable or not
Host(goos, roots, readable) ==
  [goos |-> goos, roots |-> roots, readable |-> readable]

\* a unix host whose store holds the roots of the production endpoint
DefaultHost == Host("linux", SystemCertPool, TRUE)

\* nothing was read from the store yet
NotLoaded == [loaded |-> FALSE, roots |-> {}, readable |-> FALSE]

\* Product{}
ZeroProduct == [API |-> "", ProductID |-> "", Client |-> NilClient, Validate |-> "nil"]

NotYet == Err("<not called>", "")

NoResp == [status |-> 0, bts |-> NoBody]

\* the per-call variables outside a call
callVars ==
  <<gp, ctx, key, try, reqs, dialed, resp, statuses, sleeps, result,
    classified, hookCalls, openBodies, deferred, prevRaw, remaining>>

NoCall ==
  /\ gp = ZeroProduct
  /\ ctx = "live"
  /\ key = ""
  /\ try = 0
  /\ reqs = <<>>
  /\ dialed = 0
  /\ resp = NoResp
  /\ statuses = <<>>
  /\ sleeps = <<>>
  /\ result = Nil
  /\ classified = FALSE
  /\ hookCalls = 0
  /\ openBodies = 0
  /\ deferred = 0
  /\ prevRaw = ""
  /\ remaining = 0

\* the goroutines that call Verify on one shared Product
Callers == {"a", "b"}

\* the keys they submit
SharedKeys == {"key", "fake-key"}

\* a caller that has not called Verify yet
IdleCall ==
  [pc |-> "idle", ctx |-> "live", key |-> "", try |-> 0, events |-> <<>>,
   status |-> 0, sleeps |-> <<>>, result |-> Nil, dialed |-> 0]

\* no caller shares the Product
NoSharing ==
  /\ calls = [i \in Callers |-> IdleCall]
  /\ server = [k \in SharedKeys |-> NoResp]
  /\ first = [k \in SharedKeys |-> NotYet]

Init ==
  /\ p = ZeroProduct
  /\ productID = ""
  /\ newErr = NotYet
  /\ pc = "new"
  /\ NoCall
  /\ NoSharing
  /\ host = DefaultHost
  /\ captured = NotLoaded

(***************************************************************************)
(* NewProduct, main.go lines 27-63                                         *)
(***************************************************************************)

\* a constructor without the check of the identifier
NewProductNoCheck(id) ==
  [product |-> [API |-> GumroadAPI, ProductID |-> id,
                Client |-> DefaultClient, Validate |-> "nil"],
   err |-> Nil]

\* x509.SystemCertPool() on host h, line 36.  On unix it returns a copy of
\* the roots it finds, or an error if it finds none it can parse; on darwin
\* and windows it returns, never with an error, a pool that stands for the
\* verifier of the platform.
SystemCertPoolOf(h) ==
  IF ~h.readable
  THEN [pool |-> [kind |-> "nil", roots |-> {}], err |-> "no system roots"]
  ELSE IF h.goos = "linux"
  THEN [pool |-> [kind |-> "snapshot", roots |-> h.roots], err |-> ""]
  ELSE [pool |-> [kind |-> "platform", roots |-> {}], err |-> ""]

\* &http.Client{Timeout: time.Minute, Transport: &http.Transport{
\* TLSClientConfig: &tls.Config{RootCAs: certPool}, ...}}, lines 39-61
NewClient(certPool) ==
  [RootCAs |-> certPool.roots, pool |-> certPool.kind, Timeout |-> 60]

\* a constructor that fails when the trust store cannot be read
NewProductStrict(id) ==
  IF id = ""
  THEN [product |-> ZeroProduct, err |-> ErrProductEmpty]
  ELSE IF SystemCertPoolOf(host).err # ""
  THEN [product |-> ZeroProduct, err |-> Err(SystemCertPoolOf(host).err, "")]
  ELSE [product |-> [API |-> GumroadAPI, ProductID |-> id,
                     Client |-> NewClient(SystemCertPoolOf(host).pool),
                     Validate |-> "nil"],
        err |-> Nil]

\* NewProduct(id): the error of SystemCertPool is dropped (certPool, _ :=)
NewProductResult(id) ==
  IF id = ""
  THEN [product |-> ZeroProduct, err |-> ErrProductEmpty]
  ELSE [product |-> [API |-> GumroadAPI, ProductID |-> id,
                     Client |-> NewClient(SystemCertPoolOf(host).pool),
                     Validate |-> "nil"],
        err |-> Nil]

\* the caller constructs a verifier (again, after a failed construction)
NewProduct(id) ==
  /\ UNCHANGED sharedVars
  /\ pc = "new"
  /\ productID' = id
  /\ p' = NewProductResult(id).product
  /\ newErr' = NewProductResult(id).err
  /\ pc' = IF NewProductResult(id).err = Nil THEN "idle" ELSE "new"
  /\ captured' = IF id = ""
                 THEN captured
                 ELSE [loaded |-> TRUE, roots |-> host.roots,
                       readable |-> host.readable]
  /\ UNCHANGED host
  /\ UNCHANGED callVars

\* the caller sets the public fields, as the tests do: p.API = server.URL,
\* p.Client = server.Client(), p.Validate = func...
Configure(api, client, hook) ==
  /\ UNCHANGED sharedVars
  /\ UNCHANGED trustVars
  /\ pc = "idle"
  /\ p' = [p EXCEPT !.API = api, !.Client = client, !.Validate = hook]
  /\ UNCHANGED <<productID, newErr, pc>>
  /\ UNCHANGED callVars

\* the caller drops the verifier and constructs another one
Discard ==
  /\ UNCHANGED sharedVars
  /\ pc = "idle"
  /\ captured' = NotLoaded
  /\ UNCHANGED host
  /\ p' = ZeroProduct
  /\ productID' = ""
  /\ newErr' = NotYet
  /\ pc' = "new"
  /\ UNCHANGED callVars

(***************************************************************************)
(* Verify / doVerify, main.go lines 68-138                                 *)
(***************************************************************************)

\* a retry policy that also retries client errors
ShouldRetryFrom400(status) == status >= 400

\* a retry on status 500 only: `resp.StatusCode == 500`
ShouldRetryOnly500(status) == status = 500

\* whether a response is retried, line 97
ShouldRetry(status) == status >= 500

\* a retry loop without a cap
ExhaustedNever(t) == FALSE

\* a retry cap that is off by one
ExhaustedOffByOne(t) == t > maxRetries

\* whether attempt t was the last one, line 98
Exhausted(t) == t = maxRetries

\* an exponential backoff: 500, 1000, 2000, 4000
BackoffExponential(t) == (2 ^ (t - 1)) * backoffUnit

\* the duration of the sleep after attempt t, line 101
Backoff(t) == t * backoffUnit

\* a request bound to context.Background(): http.NewRequest
RequestCtxBackground(c) == "live"

\* the state of the context the request is bound to when the caller's context
\* is in state c: http.NewRequestWithContext(ctx, ...) binds the caller's
RequestCtx(c) == c

\* a request that always goes to the production endpoint
NewRequestDefaultAPI(v, c, k) ==
  [method |-> "POST", url |-> GumroadAPI, product_id |-> v.ProductID,
   license_key |-> k, contentType |-> "application/x-www-form-urlencoded"]

\* http.NewRequestWithContext(ctx, "POST", gp.API, url.Values{...}) + header
NewRequest(v, c, k) ==
  [method |-> "POST", url |-> v.API, product_id |-> v.ProductID,
   license_key |-> k, contentType |-> "application/x-www-form-urlencoded"]

\* a give-up that reports the page the attempt before the last one read
GiveUpStale(bts) == ErrGumroadIssue([NoBody EXCEPT !.raw = prevRaw])

\* the error of the give-up after the last attempt read bts, line 99
GiveUp(bts) == ErrGumroadIssue(bts)

\* the return of Verify: the deferred closes of all frames run
Return(err) ==
  /\ pc' = "done"
  /\ result' = err
  /\ openBodies' = openBodies - deferred
  /\ deferred' = 0

\* a transport with InsecureSkipVerify: every certificate passes
TrustedAny(client, api) == TRUE

\* the TLS handshake of client.Do succeeds iff the certificate of the
\* endpoint chains to a root of the client's pool: for a pool of the
\* platform, to a root the store of the host holds at the handshake
Trusted(client, api) ==
  ServerCert(api) \in (IF client.pool = "platform"
                       THEN host.roots
                       ELSE client.RootCAs)

\* the error client.Do returns, if any, for a request in flight.  A request
\* whose context is done fails with the context's error; an endpoint whose
\* certificate does not chain to the client's RootCAs fails the handshake.
DoErrors(v, req, c) ==
  IF RequestCtx(c) = "live"
  THEN IF Trusted(v.Client, req.url)
       THEN NetworkErrors
       ELSE IF v.Client.pool = "nil"
       THEN {NoRootsError, "connection refused"}
       ELSE {TLSError, "connection refused"}
  ELSE {CtxErr(c)}

\* whether client.Do can return a response for a request in flight
DoCanRespond(v, req, c) ==
  /\ RequestCtx(c) = "live"
  /\ Trusted(v.Client, req.url)

\* an entry of doVerify without the check of the key
doVerifyNoKeyCheck(v, c, k, t) ==
  /\ try' = t
  /\ reqs' = Append(reqs, NewRequest(v, c, k))
  /\ IF RequestCtx(c) # "live"
     THEN /\ Return(ErrFailedCheck(CtxErr(c)))
          /\ UNCHANGED dialed
     ELSE /\ pc' = "inflight"
          /\ dialed' = dialed + 1
          /\ UNCHANGED <<result, openBodies, deferred>>

\* the entry of doVerify(ctx, key, t), lines 72-85: the key check, the
\* request and the call of client.Do, up to the point where Do blocks
doVerify(v, c, k, t) ==
  /\ try' = t
  /\ IF k = ""
     THEN /\ Return(ErrKeyEmpty)
          /\ UNCHANGED <<reqs, dialed>>
     ELSE /\ reqs' = Append(reqs, NewRequest(v, c, k))
          /\ IF RequestCtx(c) # "live"
             THEN \* the transport returns before it dials
                  /\ Return(ErrFailedCheck(CtxErr(c)))
                  /\ UNCHANGED dialed
             ELSE /\ pc' = "inflight"
                  /\ dialed' = dialed + 1
                  /\ UNCHANGED <<result, openBodies, deferred>>

\* a Verify that puts a default client into the verifier before it runs
VerifyRebuildsClient(c, k) ==
  /\ UNCHANGED sharedVars
  /\ UNCHANGED trustVars
  /\ UNCHANGED <<prevRaw, remaining>>
  /\ pc = "idle"
  /\ p' = [p EXCEPT !.Client = DefaultClient]
  /\ gp' = [p EXCEPT !.Client = DefaultClient]
  /\ ctx' = c
  /\ key' = k
  /\ doVerify([p EXCEPT !.Client = DefaultClient], c, k, 1)
  /\ UNCHANGED <<productID, newErr, resp, statuses, sleeps, classified,
                 hookCalls>>

\* gp.Verify(ctx, key)
Verify(c, k) ==
  /\ UNCHANGED sharedVars
  /\ UNCHANGED trustVars
  /\ UNCHANGED <<prevRaw, remaining>>
  /\ pc = "idle"
  /\ gp' = p
  /\ ctx' = c
  /\ key' = k
  /\ doVerify(p, c, k, 1)
  /\ UNCHANGED <<p, productID, newErr, resp, statuses, sleeps, classified, hookCalls>>

\* the caller cancels the context, or its deadline elapses, during the call
Cancel(c) ==
  /\ UNCHANGED sharedVars
  /\ UNCHANGED trustVars
  /\ UNCHANGED <<prevRaw, remaining>>
  /\ pc \in {"inflight", "reading", "sleep"}
  /\ ctx = "live"
  /\ ctx' = c
  /\ UNCHANGED <<p, productID, newErr, pc, gp, key, try, reqs, dialed, resp, statuses,
                 sleeps, result, classified, hookCalls, openBodies, deferred>>

\* a transport error handled like a 5xx response: slept on and retried
DoFailsRetried(cause) ==
  /\ UNCHANGED sharedVars
  /\ UNCHANGED trustVars
  /\ UNCHANGED prevRaw
  /\ pc = "inflight"
  /\ cause \in DoErrors(gp, reqs[Len(reqs)], ctx)
  /\ IF Exhausted(try)
     THEN /\ Return(ErrFailedCheck(cause))
          /\ UNCHANGED <<sleeps, remaining>>
     ELSE /\ pc' = "sleep"
          /\ sleeps' = Append(sleeps, Backoff(try))
          /\ remaining' = Backoff(try)
          /\ UNCHANGED <<result, openBodies, deferred>>
  /\ UNCHANGED <<p, productID, newErr, gp, ctx, key, try, reqs, dialed, resp,
                 statuses, classified, hookCalls>>

\* client.Do returns an error, lines 85-88
DoFails(cause) ==
  /\ UNCHANGED sharedVars
  /\ UNCHANGED trustVars
  /\ UNCHANGED <<prevRaw, remaining>>
  /\ pc = "inflight"
  /\ cause \in DoErrors(gp, reqs[Len(reqs)], ctx)
  /\ Return(ErrFailedCheck(cause))
  /\ UNCHANGED <<p, productID, newErr, gp, ctx, key, try, reqs, dialed, resp, statuses,
                 sleeps, classified, hookCalls>>

\* client.Do returns a response: status and headers are in, the body is open
DoResponds(status) ==
  /\ UNCHANGED sharedVars
  /\ UNCHANGED trustVars
  /\ UNCHANGED <<prevRaw, remaining>>
  /\ pc = "inflight"
  /\ DoCanRespond(gp, reqs[Len(reqs)], ctx)
  /\ pc' = "reading"
  /\ resp' = [status |-> status, bts |-> NoBody]
  /\ statuses' = Append(statuses, status \div 100)
  /\ openBodies' = openBodies + 1
  /\ UNCHANGED <<p, productID, newErr, gp, ctx, key, try, reqs, dialed, sleeps, result,
                 classified, hookCalls, deferred>>

\* io.ReadAll(resp.Body) fails, lines 90-93: the return precedes the defer
ReadFails(cause) ==
  /\ UNCHANGED sharedVars
  /\ UNCHANGED trustVars
  /\ UNCHANGED <<prevRaw, remaining>>
  /\ pc = "reading"
  /\ cause \in (IF RequestCtx(ctx) = "live"
                THEN {"unexpected EOF"} ELSE {CtxErr(ctx)})
  /\ Return(ErrFailedCheck(cause))
  /\ UNCHANGED <<p, productID, newErr, gp, ctx, key, try, reqs, dialed, resp, statuses,
                 sleeps, classified, hookCalls>>

\* io.ReadAll returns the body; the rest of doVerify up to its return or
\* up to time.Sleep, lines 94-137
ReadBody(bts) ==
  /\ UNCHANGED sharedVars
  /\ UNCHANGED trustVars
  /\ pc = "reading"
  /\ RequestCtx(ctx) = "live"
  /\ [status |-> resp.status, bts |-> bts] \in Responses
  /\ resp' = [resp EXCEPT !.bts = bts]
  /\ IF ShouldRetry(resp.status)
     THEN IF Exhausted(try)
          THEN /\ pc' = "done"
               /\ result' = GiveUp(bts)
               /\ openBodies' = openBodies - (deferred + 1)
               /\ deferred' = 0
               /\ UNCHANGED <<sleeps, classified, hookCalls, prevRaw, remaining>>
          ELSE /\ pc' = "sleep"
               /\ sleeps' = Append(sleeps, Backoff(try))
               /\ remaining' = Backoff(try)
               /\ deferred' = deferred + 1
               /\ prevRaw' = bts.raw
               /\ UNCHANGED <<result, openBodies, classified, hookCalls>>
     ELSE /\ pc' = "done"
          /\ result' = Decode(gp, key, bts)
          /\ openBodies' = openBodies - (deferred + 1)
          /\ deferred' = 0
          /\ classified' = (Unmarshal(bts).err = "")
          /\ hookCalls' =
               IF Unmarshal(bts).err = "" /\ ReachesHook(gp, key, Unmarshal(bts).gumroad)
               THEN hookCalls + 1 ELSE hookCalls
          /\ UNCHANGED <<sleeps, prevRaw, remaining>>
  /\ UNCHANGED <<p, productID, newErr, gp, ctx, key, try, reqs, dialed, statuses>>

\* a retry that runs on a fresh context instead of the caller's
WakeUpBackground ==
  /\ UNCHANGED sharedVars
  /\ UNCHANGED trustVars
  /\ UNCHANGED prevRaw
  /\ pc = "sleep"
  /\ remaining' = 0
  /\ doVerify(gp, "live", key, try + 1)
  /\ UNCHANGED <<p, productID, newErr, gp, ctx, key, resp, statuses, sleeps,
                 classified, hookCalls>>

\* a retry that does not count: doVerify calls itself with try
WakeUpSameTry ==
  /\ UNCHANGED sharedVars
  /\ UNCHANGED trustVars
  /\ UNCHANGED prevRaw
  /\ pc = "sleep"
  /\ remaining' = 0
  /\ doVerify(gp, ctx, key, try)
  /\ UNCHANGED <<p, productID, newErr, gp, ctx, key, resp, statuses, sleeps, classified,
                 hookCalls>>

\* time.Sleep returns and doVerify calls itself with try+1, line 102
WakeUp ==
  /\ UNCHANGED sharedVars
  /\ UNCHANGED trustVars
  /\ UNCHANGED prevRaw
  /\ pc = "sleep"
  /\ remaining' = 0
  /\ doVerify(gp, ctx, key, try + 1)
  /\ UNCHANGED <<p, productID, newErr, gp, ctx, key, resp, statuses, sleeps, classified,
                 hookCalls>>

\* time passes while time.Sleep runs, line 101: a part of the duration,
\* not yet all of it.  time.Sleep takes no context: it goes on whatever
\* the state of ctx is
TimePasses ==
  /\ UNCHANGED sharedVars
  /\ UNCHANGED trustVars
  /\ pc = "sleep"
  /\ remaining > backoffUnit
  /\ remaining' = remaining - backoffUnit
  /\ UNCHANGED <<p, productID, newErr, pc, gp, ctx, key, try, reqs, dialed, resp,
                 statuses, sleeps, result, classified, hookCalls, openBodies,
                 deferred, prevRaw>>

\* the caller takes the result; the call's state is gone
Finish ==
  /\ UNCHANGED sharedVars
  /\ UNCHANGED trustVars
  /\ pc = "done"
  /\ pc' = "idle"
  /\ gp' = ZeroProduct
  /\ ctx' = "live"
  /\ key' = ""
  /\ try' = 0
  /\ reqs' = <<>>
  /\ dialed' = 0
  /\ resp' = NoResp
  /\ statuses' = <<>>
  /\ sleeps' = <<>>
  /\ result' = Nil
  /\ classified' = FALSE
  /\ hookCalls' = 0
  /\ openBodies' = 0
  /\ deferred' = 0
  /\ prevRaw' = ""
  /\ remaining' = 0
  /\ UNCHANGED <<p, productID, newErr>>

Next ==
  \/ \E id \in ProductIDs : NewProduct(id)
  \/ \E api \in APIs, client \in Clients, hook \in Hooks :
       Configure(api, client, hook)
  \/ Discard
  \/ \E c \in {"live", "canceled", "deadline"}, k \in Keys : Verify(c, k)
  \/ \E c \in {"canceled", "deadline"} : Cancel(c)
  \/ \E cause \in NetworkErrors \cup ContextErrors \cup {TLSError} : DoFails(cause)
  \/ \E status \in Statuses : DoResponds(status)
  \/ \E cause \in ContextErrors \cup {"unexpected EOF"} : ReadFails(cause)
  \/ \E bts \in Bodies : ReadBody(bts)
  \/ TimePasses
  \/ WakeUp
  \/ Finish

Spec == Init /\ [][Next]_vars

(***************************************************************************)
(* The calls of one configured verifier, with their waits ending.  The     *)
(* verifier is set up once, for a trusted or an untrusted endpoint; the    *)
(* server answers with any status and with an error page, a purchase or a  *)
(* failed lookup.                                                          *)
(***************************************************************************)

\* the verifiers: the one of the tests, and the default client pointed at
\* the test endpoint, whose certificate it does not trust
CallProducts ==
  {[API |-> TestAPI, ProductID |-> "product", Client |-> c,
    Validate |-> "sellerCheck"] : c \in Clients}

\* the bodies the server sends
CallBodies ==
  { [NoBody EXCEPT !.raw = "<html>"],
    [NoBody EXCEPT !.valid = TRUE, !.success = TRUE, !.productID = "product",
                   !.licenseKey = "key", !.sellerID = "seller",
                   !.saleTimestamp = 1],
    [NoBody EXCEPT !.valid = TRUE, !.message = "some error",
                   !.sellerID = "seller"] }

InitCalls ==
  /\ p \in CallProducts
  /\ productID = "product"
  /\ newErr = Nil
  /\ pc = "idle"
  /\ NoCall
  /\ NoSharing
  /\ host = DefaultHost
  /\ captured = NotLoaded

\* client.Do returns: an error or a response
DoReturns ==
  \/ \E cause \in NetworkErrors \cup ContextErrors \cup {TLSError, NoRootsError} :
       DoFails(cause)
  \/ \E status \in Statuses : DoResponds(status)

\* io.ReadAll returns: an error or the body
ReadAllReturns ==
  \/ \E cause \in ContextErrors \cup {"unexpected EOF"} : ReadFails(cause)
  \/ \E bts \in CallBodies : ReadBody(bts)

NextCalls ==
  \/ \E c \in {"live", "canceled", "deadline"}, k \in Keys : Verify(c, k)
  \/ \E c \in {"canceled", "deadline"} : Cancel(c)
  \/ DoReturns
  \/ ReadAllReturns
  \/ WakeUp
  \/ Finish

\* every wait on the network ends: client.Do returns a response or an error
\* (at the latest when the client's Timeout or the context ends it), and so
\* does io.ReadAll
NetworkWaitEnds == WF_vars(DoReturns) /\ WF_vars(ReadAllReturns)

\* time.Sleep returns when its duration is over
SleepEnds == WF_vars(WakeUp)

SpecFair == InitCalls /\ [][NextCalls]_vars /\ NetworkWaitEnds /\ SleepEnds

(***************************************************************************)
(* The verifier on a host whose trust store changes.  The process runs on  *)
(* a unix or on a darwin/windows host; it constructs one verifier and runs *)
(* calls on it, against the production endpoint.  Between the calls, and   *)
(* before the construction, the store of the host can lose or gain the     *)
(* root of the endpoint's certificate, and on unix become unreadable.      *)
(***************************************************************************)

\* the contents of the store: without or with the root of the endpoint
Stores == {{}, SystemCertPool}

\* the hosts.  On darwin and windows SystemCertPool cannot fail (comment of
\* lines 33-35); an unreadable store yields no roots
Hosts ==
  {h \in [goos : {"linux", "darwin"}, roots : Stores, readable : BOOLEAN] :
     /\ h.goos = "darwin" => h.readable
     /\ ~h.readable => h.roots = {}}

InitHost ==
  /\ p = ZeroProduct
  /\ productID = ""
  /\ newErr = NotYet
  /\ pc = "new"
  /\ NoCall
  /\ NoSharing
  /\ host \in Hosts
  /\ captured = NotLoaded

\* the store of the host changes while no call runs
StoreChanges(h) ==
  /\ pc \in {"new", "idle"}
  /\ h \in Hosts
  /\ h.goos = host.goos
  /\ h # host
  /\ host' = h
  /\ UNCHANGED <<p, productID, newErr, pc, captured>>
  /\ UNCHANGED callVars
  /\ UNCHANGED sharedVars

NextHost ==
  \/ \E id \in ProductIDs : NewProduct(id)
  \/ \E h \in Hosts : StoreChanges(h)
  \/ \E c \in {"live", "canceled", "deadline"}, k \in Keys : Verify(c, k)
  \/ \E c \in {"canceled", "deadline"} : Cancel(c)
  \/ DoReturns
  \/ ReadAllReturns
  \/ WakeUp
  \/ Finish

SpecHost == InitHost /\ [][NextHost]_vars

(***************************************************************************)
(* Several callers on one Product.  The verifier is constructed and set up *)
(* once; every caller then runs Verify calls on it, one after the other,   *)
(* concurrently with the other callers.  Each call is the same doVerify,   *)
(* on the call's own record: its parameters ctx, key and try and what it   *)
(* has received.  To each key the server either gives one fixed answer or  *)
(* answers as it likes.                                                    *)
(***************************************************************************)

\* a successful lookup of product "product" that echoes license key k
EchoBody(k) ==
  [NoBody EXCEPT !.valid = TRUE, !.success = TRUE, !.productID = "product",
                 !.licenseKey = k, !.sellerID = "seller", !.saleTimestamp = 1]

\* the bodies the server of the shared verifier sends
SharedBodies ==
  { EchoBody("key"), EchoBody(""),
    [NoBody EXCEPT !.valid = TRUE, !.message = "some error", !.sellerID = "seller"],
    [NoBody EXCEPT !.raw = "some error"] }

\* its answers: a 5xx answer is an error page
SharedResponses ==
  {r \in [status : {200, 500}, bts : SharedBodies] :
     r.status >= 500 => ~r.bts.valid}

\* the answers a request with key k can get
Answers(k) == IF server[k] = NoResp THEN SharedResponses ELSE {server[k]}

\* the fixed answers of a server that answers a key in one way: the
\* purchase of "key", or an error page
FixedResponses ==
  { [status |-> 200, bts |-> EchoBody("key")],
    [status |-> 500, bts |-> [NoBody EXCEPT !.raw = "some error"]] }

\* the product the callers share: set up as the tests do
SharedProducts ==
  {[API |-> TestAPI, ProductID |-> "product", Client |-> TestClient,
    Validate |-> "sellerCheck"]}

InitShared ==
  /\ p \in SharedProducts
  /\ productID = "product"
  /\ newErr = Nil
  /\ pc = "idle"
  /\ NoCall
  /\ calls = [i \in Callers |-> IdleCall]
  /\ server \in [SharedKeys -> FixedResponses \cup {NoResp}]
  /\ first = [k \in SharedKeys |-> NotYet]
  /\ host = DefaultHost
  /\ captured = NotLoaded

\* what client.Do or io.ReadAll handed to the call: an error or a response
ErrEvent(cause) == [err |-> cause, status |-> 0, bts |-> NoBody]

RespEvent(status, bts) == [err |-> "", status |-> status, bts |-> bts]

\* the entry of doVerify(ctx, key, t) on the record r of a call, lines 72-85
Enter(v, r, t) ==
  IF r.key = ""
  THEN [r EXCEPT !.try = t, !.pc = "done", !.result = ErrKeyEmpty]
  ELSE IF RequestCtx(r.ctx) # "live"
  THEN [r EXCEPT !.try = t, !.pc = "done",
                 !.result = ErrFailedCheck(CtxErr(r.ctx)),
                 !.events = Append(@, ErrEvent(CtxErr(r.ctx)))]
  ELSE [r EXCEPT !.try = t, !.pc = "inflight", !.dialed = @ + 1]

\* a call started from the state the caller's previous call left behind:
\* nothing of it is kept, try starts at 1 (line 69)
StartCall(prev, c, k) == [IdleCall EXCEPT !.ctx = c, !.key = k]

\* a Verify that remembers the result of the caller's last call by its key
VerifyCallCachedByKey(v, prev, c, k) ==
  IF prev.pc = "done" /\ prev.key = k
  THEN [StartCall(prev, c, k) EXCEPT !.pc = "done", !.try = 1,
                                    !.result = prev.result]
  ELSE Enter(v, StartCall(prev, c, k), 1)

\* a Verify that answers from the previous success instead of asking again
VerifyCallCached(v, prev, c, k) ==
  IF prev.pc = "done" /\ prev.result = Nil
  THEN [StartCall(prev, c, k) EXCEPT !.pc = "done", !.try = 1]
  ELSE Enter(v, StartCall(prev, c, k), 1)

\* gp.Verify(ctx, key) on the record of a call, lines 68-70
VerifyCall(v, prev, c, k) == Enter(v, StartCall(prev, c, k), 1)

\* an attempt counter that the calls share
AttemptShared(cs, i) ==
  CHOOSE n \in 0..maxRetries :
    /\ \E j \in Callers : cs[j].try = n
    /\ \A j \in Callers : cs[j].try <= n

\* the attempt of call i: its own try parameter, line 72
Attempt(cs, i) == cs[i].try

\* the rest of doVerify after io.ReadAll returned bts in attempt a, lines 94-137
AfterBody(v, r, a, bts) ==
  IF ShouldRetry(r.status)
  THEN IF Exhausted(a)
       THEN [r EXCEPT !.pc = "done", !.result = ErrGumroadIssue(bts),
                      !.events = Append(@, RespEvent(r.status, bts))]
       ELSE [r EXCEPT !.pc = "sleep", !.sleeps = Append(@, Backoff(a)),
                      !.events = Append(@, RespEvent(r.status, bts))]
  ELSE [r EXCEPT !.pc = "done", !.result = Decode(v, r.key, bts),
                 !.events = Append(@, RespEvent(r.status, bts))]

\* the call was answered by the server at every attempt
Clean(r) == \A n \in 1..Len(r.events) : r.events[n].err = ""

\* the first result of a call with a key the server answers in one way
Remember(r) ==
  IF /\ r.pc = "done"
     /\ Clean(r)
     /\ server[r.key] # NoResp
     /\ first[r.key] = NotYet
  THEN [first EXCEPT ![r.key] = r.result]
  ELSE first

\* the variables of the single caller, which the shared verifier leaves alone
singleVars ==
  <<productID, newErr, pc, gp, ctx, key, try, reqs, dialed, resp, statuses,
    sleeps, result, classified, hookCalls, openBodies, deferred, prevRaw,
    remaining>>

\* caller i takes the record of its call to r
Step(i, r) ==
  /\ calls' = [calls EXCEPT ![i] = r]
  /\ first' = Remember(r)
  /\ UNCHANGED <<p, server>>
  /\ UNCHANGED singleVars
  /\ UNCHANGED trustVars

\* caller i calls p.Verify(ctx, key)
SVerify(i, c, k) ==
  /\ calls[i].pc \in {"idle", "done"}
  /\ Step(i, VerifyCall(p, calls[i], c, k))

\* the caller cancels the context of its call
SCancel(i) ==
  /\ calls[i].pc \in {"inflight", "reading", "sleep"}
  /\ calls[i].ctx = "live"
  /\ Step(i, [calls[i] EXCEPT !.ctx = "canceled"])

\* client.Do returns an error, lines 85-88
SDoFails(i, cause) ==
  /\ calls[i].pc = "inflight"
  /\ cause \in DoErrors(p, NewRequest(p, calls[i].ctx, calls[i].key), calls[i].ctx)
  /\ Step(i, [calls[i] EXCEPT !.pc = "done",
                              !.result = ErrFailedCheck(cause),
                              !.events = Append(@, ErrEvent(cause))])

\* client.Do returns a response
SDoResponds(i, status) ==
  /\ calls[i].pc = "inflight"
  /\ DoCanRespond(p, NewRequest(p, calls[i].ctx, calls[i].key), calls[i].ctx)
  /\ \E r \in Answers(calls[i].key) : r.status = status
  /\ Step(i, [calls[i] EXCEPT !.pc = "reading", !.status = status])

\* io.ReadAll fails, lines 90-93
SReadFails(i, cause) ==
  /\ calls[i].pc = "reading"
  /\ cause \in (IF RequestCtx(calls[i].ctx) = "live"
                THEN {"unexpected EOF"} ELSE {CtxErr(calls[i].ctx)})
  /\ Step(i, [calls[i] EXCEPT !.pc = "done",
                              !.result = ErrFailedCheck(cause),
                              !.events = Append(@, ErrEvent(cause))])

\* io.ReadAll returns the body, lines 94-137
SReadBody(i, bts) ==
  /\ calls[i].pc = "reading"
  /\ RequestCtx(calls[i].ctx) = "live"
  /\ [status |-> calls[i].status, bts |-> bts] \in Answers(calls[i].key)
  /\ Step(i, AfterBody(p, calls[i], Attempt(calls, i), bts))

\* time.Sleep returns and doVerify calls itself with try+1, line 102
SWakeUp(i) ==
  /\ calls[i].pc = "sleep"
  /\ Step(i, Enter(p, calls[i], calls[i].try + 1))

NextShared ==
  \E i \in Callers :
    \/ \E c \in {"live", "canceled"}, k \in SharedKeys : SVerify(i, c, k)
    \/ SCancel(i)
    \/ \E cause \in NetworkErrors \cup ContextErrors \cup {TLSError} :
         SDoFails(i, cause)
    \/ \E status \in {200, 500} : SDoResponds(i, status)
    \/ \E cause \in ContextErrors \cup {"unexpected EOF"} : SReadFails(i, cause)
    \/ \E bts \in SharedBodies : SReadBody(i, bts)
    \/ SWakeUp(i)

SpecShared == InitShared /\ [][NextShared]_vars

(***************************************************************************)
(* Two calls side by side.  Two callers run Verify on the verifier of the  *)
(* tests, with one key or with two; the server answers every request as it *)
(* likes, with a status below 500 (200, 404) or with 500, so that the      *)
(* calls can get the same body under different statuses.                   *)
(***************************************************************************)

\* the statuses the server of the two calls sends
TwinStatuses == {200, 404, 500}

\* the bodies it sends: an error page, the purchase of "key", a failed
\* lookup
TwinBodies == CallBodies

\* its answers: with status 500 the error page
TwinResponses ==
  {r \in [status : TwinStatuses, bts : TwinBodies] :
     r.status >= 500 => ~r.bts.valid}

InitTwin ==
  /\ p \in SharedProducts
  /\ productID = "product"
  /\ newErr = Nil
  /\ pc = "idle"
  /\ NoCall
  /\ NoSharing
  /\ host = DefaultHost
  /\ captured = NotLoaded

\* client.Do returns a response with any status of the server
TDoResponds(i, status) ==
  /\ calls[i].pc = "inflight"
  /\ DoCanRespond(p, NewRequest(p, calls[i].ctx, calls[i].key), calls[i].ctx)
  /\ Step(i, [calls[i] EXCEPT !.pc = "reading", !.status = status])

\* io.ReadAll returns the body, lines 94-137
TReadBody(i, bts) ==
  /\ calls[i].pc = "reading"
  /\ RequestCtx(calls[i].ctx) = "live"
  /\ [status |-> calls[i].status, bts |-> bts] \in TwinResponses
  /\ Step(i, AfterBody(p, calls[i], Attempt(calls, i), bts))

NextTwin ==
  \E i \in Callers :
    \/ \E c \in {"live", "canceled"}, k \in SharedKeys : SVerify(i, c, k)
    \/ SCancel(i)
    \/ \E cause \in NetworkErrors \cup ContextErrors \cup {TLSError} :
         SDoFails(i, cause)
    \/ \E status \in TwinStatuses : TDoResponds(i, status)
    \/ \E cause \in ContextErrors \cup {"unexpected EOF"} : SReadFails(i, cause)
    \/ \E bts \in TwinBodies : TReadBody(i, bts)
    \/ SWakeUp(i)

SpecTwin == InitTwin /\ [][NextTwin]_vars

(***************************************************************************)
(* Vocabulary of the properties                                            *)
(***************************************************************************)

\* a Verify call is running or has returned and was not yet taken
InCall == pc \in {"inflight", "reading", "sleep", "done"}

\* the last response of the call was read to its end
Answered == resp.status # 0 /\ resp.bts # NoBody

FailedCheckMsg == "license: failed check license: %w"

GumroadIssueMsg == "license: likely gumroad issue: %s"

\* the error kinds of the error taxonomy, by what the error says and wraps
IsTransportFailure(err) ==
  /\ err.msg = FailedCheckMsg
  /\ err.cause \in NetworkErrors \cup ContextErrors \cup {TLSError, "unexpected EOF"}

IsProviderUnavailable(err) == err.msg = GumroadIssueMsg

\* errors.Is(err, context.Canceled) or errors.Is(err, context.DeadlineExceeded)
IsCancellation(err) == err.msg = FailedCheckMsg /\ err.cause \in ContextErrors

\* the eight classification rules as the ordered list of the specification:
\* the condition of each rule on the fields of the body b, and its outcome
Rules(v, k, b) ==
  << [holds |-> ~b.success,
      out |-> Err("license: invalid license: %s", b.message)],
     [holds |-> b.refunded,
      out |-> Err("license: license was refunded and is now invalid", "")],
     [holds |-> b.cancelledAt # 0,
      out |-> Err("license: subscription was canceled, license is now invalid", "")],
     [holds |-> b.failedAt # 0,
      out |-> Err("license: failed to renew subscription, please check at https://gumroad.com/subscriptions/%s/manage",
                  b.subscriptionID)],
     [holds |-> b.productID # v.ProductID,
      out |-> Err("license: invalid product ID", "")],
     [holds |-> b.licenseKey # k,
      out |-> Err("license: invalid license", "")],
     [holds |-> v.Validate = "sellerCheck" /\ b.sellerID # "seller",
      out |-> Err("invalid seller id", "")],
     [holds |-> TRUE, out |-> Nil] >>

\* the first rule whose condition holds
FirstRule(v, k, b) ==
  CHOOSE i \in 1..8 :
    /\ Rules(v, k, b)[i].holds
    /\ \A j \in 1..(i - 1) : ~Rules(v, k, b)[j].holds

\* the outcome the specification gives a response below 500 with body b
Expected(v, k, b) ==
  IF b.valid
  THEN Rules(v, k, b)[FirstRule(v, k, b)].out
  ELSE Err(FailedCheckMsg, "invalid character")

C3_FiveAttemptsThenUnavailable ==
  /\ Len(reqs) <= 5
  /\ dialed <= 5
  /\ (/\ pc = "done"
      /\ Answered
      /\ Len(statuses) = Len(reqs)
      /\ \A i \in 1..Len(statuses) : statuses[i] = 5)
       => /\ Len(reqs) = 5
          /\ dialed = 5
          /\ IsProviderUnavailable(result)

\* five 5xx answers in a row
C3_Witness ==
  /\ pc = "done"
  /\ statuses = <<5, 5, 5, 5, 5>>
  /\ Len(reqs) = 5
  /\ IsProviderUnavailable(result)

C5_TransportFailureIsFinal ==
  [][(pc = "inflight" /\ pc' # "inflight" /\ statuses' = statuses)
       => /\ pc' = "done"
          /\ IsTransportFailure(result')
          /\ result'.cause # "unexpected EOF"
          /\ sleeps' = sleeps
          /\ reqs' = reqs
          /\ dialed' = dialed
          /\ try' = try]_vars

\* the transport failed at the third attempt, after two 5xx answers
C5_Witness ==
  /\ pc = "done"
  /\ statuses = <<5, 5>>
  /\ Len(reqs) = 3
  /\ Len(sleeps) = 2
  /\ result = ErrFailedCheck("connection refused")

(***************************************************************************)
(* C6: when the endpoint presents a certificate the verifier's client does *)
(* not trust, Verify fails with the "failed check license" error; no       *)
(* response is obtained, and neither the classification rules nor the      *)
(* Validate hook run.                                                      *)
(***************************************************************************)
C6_UntrustedNeverClassified ==
  (InCall /\ key # "" /\ ~(ServerCert(gp.API) \in gp.Client.RootCAs))
    => /\ statuses = <<>>
       /\ resp = NoResp
       /\ ~classified
       /\ hookCalls = 0
       /\ pc \in {"inflight", "done"}
       /\ (pc = "done" => IsTransportFailure(result))

\* the default client met the test certificate and the handshake failed
C6_Witness ==
  /\ pc = "done"
  /\ gp.Client = DefaultClient
  /\ gp.API = TestAPI
  /\ gp.Validate = "sellerCheck"
  /\ result = ErrFailedCheck(TLSError)

(***************************************************************************)
(* C7: for an empty key, Verify fails with "license: license key cannot be *)
(* empty" and sends no request, whatever the configuration and the context.*)
(***************************************************************************)
C7_EmptyKeyRejected ==
  (InCall /\ key = "")
    => /\ pc = "done"
       /\ result = Err("license: license key cannot be empty", "")
       /\ reqs = <<>>
       /\ dialed = 0
       /\ statuses = <<>>
       /\ sleeps = <<>>

\* an empty key on a cancelled context and an untrusted endpoint
C7_Witness ==
  /\ pc = "done"
  /\ key = ""
  /\ ctx = "canceled"
  /\ gp.API = TestAPI
  /\ gp.Client = DefaultClient
  /\ result = ErrKeyEmpty

(***************************************************************************)
(* C8: for an empty product identifier NewProduct fails with "license:     *)
(* product ID cannot be empty", returns the zero Product and does no       *)
(* network I/O; for every non-empty identifier it returns a verifier for   *)
(* that identifier and no error.                                           *)
(***************************************************************************)
C8_NewProduct ==
  /\ (pc = "new" => reqs = <<>> /\ dialed = 0 /\ statuses = <<>>)
  /\ (newErr # NotYet /\ productID = "")
       => /\ newErr = Err("license: product ID cannot be empty", "")
          /\ p = ZeroProduct
          /\ pc = "new"
  /\ (newErr # NotYet /\ productID # "")
       => /\ newErr = Nil
          /\ p.ProductID = productID
          /\ p.Client # NilClient
          /\ p.API # ""
          /\ pc # "new"

\* NewProduct("") was called and failed
C8_Witness ==
  /\ newErr = ErrProductEmpty
  /\ productID = ""
  /\ p = ZeroProduct

(***************************************************************************)
(* C9: when the context is cancelled, or its deadline elapses, while a     *)
(* request is in flight (before the response, or while the body is read),  *)
(* Verify returns an error that wraps the context's error; it classifies   *)
(* no response and starts no other attempt.                                *)
(***************************************************************************)
C9_CancelInFlightAborts ==
  [][(pc \in {"inflight", "reading"} /\ ctx # "live" /\ pc' # pc)
       => /\ pc' = "done"
          /\ IsCancellation(result')
          /\ result'.cause = CtxErr(ctx)
          /\ ~classified'
          /\ hookCalls' = hookCalls
          /\ reqs' = reqs
          /\ sleeps' = sleeps]_vars

\* the deadline elapsed while the body of the second response was read
C9_Witness ==
  /\ pc = "done"
  /\ ctx = "deadline"
  /\ statuses = <<5, 2>>
  /\ resp.bts = NoBody
  /\ result = ErrFailedCheck("context deadline exceeded")

(***************************************************************************)
(* C10: when the context is cancelled during the backoff sleep after       *)
(* attempt n, no request of attempt n+1 or of a later attempt goes to the  *)
(* network, and Verify returns an error.                                   *)
(***************************************************************************)
C10_CancelInSleepAborts ==
  [][(ctx # "live")
       => /\ dialed' <= dialed
          /\ statuses' = statuses \/ pc' = "idle"
          /\ (pc = "sleep" /\ pc' # "sleep")
               => /\ pc' = "done"
                  /\ result' # Nil
                  /\ ~classified']_vars

\* cancelled in the sleep after the second attempt: two requests went out
C10_Witness ==
  /\ pc = "done"
  /\ ctx = "canceled"
  /\ Len(sleeps) = 2
  /\ statuses = <<5, 5>>
  /\ Len(reqs) = 3
  /\ dialed = 2
  /\ resp.bts # NoBody
  /\ IsCancellation(result)

(***************************************************************************)
(* C11 (as amended): a cancellation or an elapsed deadline is surfaced by  *)
(* Verify as the "license: failed check license" error wrapping the        *)
(* context's error, and no retry follows it.                               *)
(***************************************************************************)
C11_CancellationWrapped ==
  (pc = "done" /\ key # "" /\ ctx # "live")
    => /\ result = Err("license: failed check license: %w", CtxErr(ctx))
       /\ ~classified
       /\ Len(reqs) = Len(sleeps) + 1
       /\ Len(sleeps) <= Len(statuses)
       /\ \A i \in 1..Len(sleeps) : statuses[i] = 5

\* C11 as stated: the cancellation error itself is the result of Verify, not
\* an error of another kind around it
C11_Original ==
  (pc = "done" /\ key # "" /\ ctx # "live") => result = Err(CtxErr(ctx), "")

\* cancelled while the second request was in flight
C11_Witness ==
  /\ pc = "done"
  /\ ctx = "canceled"
  /\ statuses = <<5>>
  /\ dialed = 2
  /\ Len(sleeps) = 1
  /\ result = ErrFailedCheck("context canceled")

(***************************************************************************)
(* C13: Verify never changes the verifier: from the call to its return,    *)
(* with any outcome, the caller's Product keeps its API, ProductID, Client *)
(* and Validate, and the call works on a copy equal to it.                 *)
(***************************************************************************)
C13_VerifierUnchanged ==
  [][(InCall \/ InCall')
       => /\ p' = p
          /\ (InCall' => gp' = p)]_vars

\* a call on a reconfigured verifier that retried and then returned
C13_Witness ==
  /\ pc = "done"
  /\ p = [API |-> TestAPI, ProductID |-> "other", Client |-> TestClient,
          Validate |-> "sellerCheck"]
  /\ statuses = <<5, 4>>
  /\ result = ErrInvalidSeller

(***************************************************************************)
(* C15: a decoded non-5xx response with success=false makes Verify fail    *)
(* with "license: invalid license: " followed by the response's message,   *)
(* whatever the purchase fields and the hook.                              *)
(***************************************************************************)
C15_InvalidLicenseMessage ==
  (pc = "done" /\ Answered /\ resp.status < 500 /\ resp.bts.valid
     /\ ~resp.bts.success)
    => result = Err("license: invalid license: %s", resp.bts.message)

\* a failed lookup with a message, a refunded purchase and a hook set
C15_Witness ==
  /\ pc = "done" /\ Answered /\ resp.status = 404
  /\ ~resp.bts.success
  /\ resp.bts.message = "some error"
  /\ resp.bts.refunded
  /\ resp.bts.productID # gp.ProductID
  /\ gp.Validate = "sellerCheck"
  /\ result = ErrInvalidLicense("some error")

(***************************************************************************)
(* C16: a decoded non-5xx response with success=true and refunded=true     *)
(* makes Verify fail with the refunded error, whatever the other fields    *)
(* and the hook.                                                           *)
(***************************************************************************)
C16_RefundedWins ==
  (pc = "done" /\ Answered /\ resp.status < 500 /\ resp.bts.valid
     /\ resp.bts.success /\ resp.bts.refunded)
    => result = Err("license: license was refunded and is now invalid", "")

\* a refunded purchase with a cancelled and failed subscription of another
\* product
C16_Witness ==
  /\ pc = "done" /\ Answered /\ resp.status < 500
  /\ resp.bts.success /\ resp.bts.refunded
  /\ resp.bts.cancelledAt # 0
  /\ resp.bts.failedAt # 0
  /\ resp.bts.productID # gp.ProductID
  /\ resp.bts.licenseKey # key
  /\ gp.Validate = "sellerCheck"
  /\ result = ErrRefunded

\* a successful lookup that carries nothing but the time of the sale
OnlySaleTimestamp(b) ==
  /\ b.valid /\ b.success /\ ~b.refunded
  /\ b.saleTimestamp # 0
  /\ b.cancelledAt = 0 /\ b.failedAt = 0
  /\ b.message = "" /\ b.subscriptionID = ""
  /\ b.productID = "" /\ b.licenseKey = "" /\ b.sellerID = ""

(***************************************************************************)
(* C17 (as amended): a non-5xx response with success=true whose purchase   *)
(* carries only a non-zero sale_timestamp makes Verify, with a non-empty   *)
(* key and no hook, fail with "license: invalid product ID".               *)
(***************************************************************************)
C17_OnlySaleTimestampIsProductMismatch ==
  (pc = "done" /\ Answered /\ resp.status < 500 /\ key # ""
     /\ gp.Validate = "nil" /\ OnlySaleTimestamp(resp.bts))
    => result = Err("license: invalid product ID", "")

\* C17 as stated: that response yields no error
C17_Original ==
  (pc = "done" /\ Answered /\ resp.status < 500 /\ key # ""
     /\ gp.Validate = "nil" /\ OnlySaleTimestamp(resp.bts))
    => result = Nil

\* the response of the minimal schema answered a call without a hook
C17_Witness ==
  /\ pc = "done" /\ Answered /\ resp.status = 200
  /\ key = "key"
  /\ gp.ProductID = "product"
  /\ gp.Validate = "nil"
  /\ OnlySaleTimestamp(resp.bts)
  /\ result = ErrProductMismatch

(***************************************************************************)
(* C18: a non-5xx response with success=true, not refunded, zero cancelled *)
(* and failed timestamps and the verifier's product_id yields no error for *)
(* a non-empty key even when it does not echo the key in license_key.      *)
(***************************************************************************)
C18_NoEchoStillValid ==
  (pc = "done" /\ Answered /\ resp.status < 500 /\ key # ""
     /\ LooksValid(resp.bts)
     /\ resp.bts.productID = gp.ProductID
     /\ resp.bts.licenseKey = ""
     /\ (gp.Validate = "sellerCheck" => resp.bts.sellerID = "seller"))
    => result = Nil

\* whether a decoded body passes every built-in check of the call
BuiltinsPass(v, k, b) ==
  /\ b.success /\ ~b.refunded
  /\ b.cancelledAt = 0 /\ b.failedAt = 0
  /\ b.productID = v.ProductID
  /\ b.licenseKey = k

C20_RenewFailedCarriesID ==
  (pc = "done" /\ Answered /\ resp.status < 500 /\ resp.bts.valid
     /\ resp.bts.success /\ ~resp.bts.refunded
     /\ resp.bts.cancelledAt = 0 /\ resp.bts.failedAt # 0)
    => result =
         Err("license: failed to renew subscription, please check at https://gumroad.com/subscriptions/%s/manage",
             resp.bts.subscriptionID)

\* the failed renewal of subscription xyz
C20_Witness ==
  /\ pc = "done" /\ Answered /\ resp.status < 500
  /\ resp.bts.success /\ ~resp.bts.refunded
  /\ resp.bts.cancelledAt = 0 /\ resp.bts.failedAt # 0
  /\ resp.bts.subscriptionID = "xyz"
  /\ resp.bts.productID # gp.ProductID
  /\ result = ErrRenewFailed("xyz")

\* what a call with key k on verifier v produces when it runs alone and
\* client.Do and io.ReadAll hand it the events ev from attempt t on, having
\* slept sl so far
RECURSIVE Alone(_, _, _, _, _)
Alone(v, k, ev, t, sl) ==
  IF ev = <<>>
  THEN [done |-> FALSE, result |-> Nil, sleeps |-> sl, try |-> t]
  ELSE IF Head(ev).err # ""
  THEN [done |-> TRUE, result |-> Err(FailedCheckMsg, Head(ev).err),
        sleeps |-> sl, try |-> t]
  ELSE IF Head(ev).status >= 500
  THEN IF t = 5
       THEN [done |-> TRUE,
             result |-> [msg |-> GumroadIssueMsg, cause |-> "",
                         bts |-> Head(ev).bts],
             sleeps |-> sl, try |-> t]
       ELSE Alone(v, k, Tail(ev), t + 1, Append(sl, t * 500))
  ELSE [done |-> TRUE, result |-> Expected(v, k, Head(ev).bts),
        sleeps |-> sl, try |-> t]

(***************************************************************************)
(* C12: with several Verify calls running concurrently on one Product, at  *)
(* every point of every interleaving each call's attempt count, backoff    *)
(* sleeps and result are those of the same call running alone on what its  *)
(* own requests received; no call sends more than its own 5 requests, and  *)
(* the calls do not change the Product.                                    *)
(***************************************************************************)
C12_ConcurrentCallsIndependent ==
  \A i \in Callers :
    calls[i].pc # "idle" =>
      LET c == calls[i]
          alone == Alone(p, c.key, c.events, 1, <<>>)
      IN /\ (c.pc = "done") = alone.done
         /\ (c.pc = "done" => c.result = alone.result)
         /\ c.sleeps = alone.sleeps
         /\ c.try = (IF c.pc = "sleep" THEN alone.try - 1 ELSE alone.try)
         /\ c.dialed <= c.try
         /\ c.try <= 5
         /\ p \in SharedProducts

\* while b sleeps after the first 5xx answer to its own key, a has used up
\* its five attempts with the other key
C12_Witness ==
  /\ calls["a"].pc = "done"
  /\ calls["a"].key = "key"
  /\ calls["a"].try = 5
  /\ calls["a"].dialed = 5
  /\ calls["a"].sleeps = <<500, 1000, 1500, 2000>>
  /\ IsProviderUnavailable(calls["a"].result)
  /\ calls["b"].pc = "sleep"
  /\ calls["b"].key = "fake-key"
  /\ calls["b"].try = 1
  /\ calls["b"].sleeps = <<500>>

(***************************************************************************)
(* C14: against a server that gives one fixed answer to a key, every       *)
(* Verify call with that key that the server answered returns the result   *)
(* of the first such call, whichever caller made it and whatever calls     *)
(* with other keys and outcomes came in between.                           *)
(***************************************************************************)
C14_SameKeySameResult ==
  \A i \in Callers :
    (/\ calls[i].pc = "done"
     /\ Clean(calls[i])
     /\ server[calls[i].key] # NoResp)
      => /\ first[calls[i].key] # NotYet
         /\ calls[i].result = first[calls[i].key]
         /\ calls[i].events # <<>>

\* the purchase of "key" verified again after a call with "fake-key" was
\* turned down in between
C14_Witness ==
  /\ first["key"] = Nil
  /\ first["fake-key"] = ErrLicenseMismatch
  /\ server["key"] = server["fake-key"]
  /\ calls["a"].pc = "done" /\ calls["a"].key = "key"
  /\ Clean(calls["a"]) /\ calls["a"].result = Nil
  /\ calls["b"].pc = "done" /\ calls["b"].key = "key"
  /\ Clean(calls["b"]) /\ calls["b"].result = Nil

(***************************************************************************)
(* C21: a zero subscription_cancelled_at or subscription_failed_at is the  *)
(* absence of the event and never fails a call; a non-zero                 *)
(* subscription_cancelled_at, of whatever value, on a successful and not   *)
(* refunded purchase makes Verify fail with the cancelled error.           *)
(***************************************************************************)
C21_ZeroTimestampIsAbsence ==
  (pc = "done" /\ Answered /\ resp.status < 500 /\ resp.bts.valid
     /\ resp.bts.success /\ ~resp.bts.refunded)
    => /\ (resp.bts.cancelledAt # 0) =
            (result = Err("license: subscription was canceled, license is now invalid", ""))
       /\ (resp.bts.cancelledAt = 0 /\ resp.bts.failedAt # 0) =
            (result = Err("license: failed to renew subscription, please check at https://gumroad.com/subscriptions/%s/manage",
                          resp.bts.subscriptionID))
       /\ (resp.bts.cancelledAt = 0 /\ resp.bts.failedAt = 0)
            => result \in {Nil, Err("license: invalid product ID", ""),
                           Err("license: invalid license", ""),
                           Err("invalid seller id", "")}

\* a subscription cancelled at the latest time, with no failed renewal
C21_Witness ==
  /\ pc = "done" /\ Answered /\ resp.status < 500
  /\ resp.bts.success /\ ~resp.bts.refunded
  /\ resp.bts.cancelledAt = MaxTime
  /\ resp.bts.failedAt = 0
  /\ resp.bts.productID = gp.ProductID
  /\ resp.bts.licenseKey = key
  /\ result = ErrCancelled

(***************************************************************************)
(* C22: the sleep between attempt n and attempt n+1 lasts n * 500 ms: the  *)
(* sleeps of a call are, in order, 500, 1000, 1500, 2000; there is none    *)
(* before attempt 1 and none after the 5th attempt.                        *)
(***************************************************************************)
C22_LinearBackoff ==
  (InCall /\ key # "")
    => /\ Len(sleeps) <= 4
       /\ \A n \in 1..Len(sleeps) : sleeps[n] = n * 500
       /\ Len(sleeps) = (IF pc = "sleep" THEN try ELSE try - 1)
       /\ Len(reqs) = try
       /\ (try = 5 => pc # "sleep")

\* all four sleeps were taken and the fifth attempt failed
C22_Witness ==
  /\ pc = "done"
  /\ try = 5
  /\ sleeps = <<500, 1000, 1500, 2000>>
  /\ statuses = <<5, 5, 5, 5, 5>>
  /\ IsProviderUnavailable(result)

(***************************************************************************)
(* C23: a response below 500 whose body does not decode makes Verify fail  *)
(* with the "failed check license" error wrapping the decoder's error, at  *)
(* once: no sleep and no request follow that response.                     *)
(***************************************************************************)
C23_MalformedIsFinal ==
  (Answered /\ resp.status < 500 /\ ~resp.bts.valid)
    => /\ pc = "done"
       /\ result = Err("license: failed check license: %w", "invalid character")
       /\ ~classified
       /\ hookCalls = 0
       /\ Len(reqs) = Len(statuses)
       /\ Len(sleeps) = Len(reqs) - 1
       /\ dialed = Len(reqs)

\* an error page with status 404 after one retry
C23_Witness ==
  /\ pc = "done"
  /\ statuses = <<5, 4>>
  /\ resp.status = 404
  /\ resp.bts.raw = "<html>"
  /\ Len(reqs) = 2
  /\ result = ErrFailedCheck("invalid character")

(***************************************************************************)
(* C28: every request of a Verify call, the first and each retry, is a     *)
(* form-encoded POST to the API endpoint the verifier is configured with,  *)
(* carrying the verifier's ProductID as product_id and the submitted key   *)
(* as license_key.                                                         *)
(***************************************************************************)
C28_RequestsAllAlike ==
  InCall =>
    \A n \in 1..Len(reqs) :
      reqs[n] = [method |-> "POST", url |-> p.API, product_id |-> p.ProductID,
                 license_key |-> key,
                 contentType |-> "application/x-www-form-urlencoded"]

\* three requests of a verifier pointed at the test endpoint
C28_Witness ==
  /\ pc = "done"
  /\ Len(reqs) = 3
  /\ statuses = <<5, 5, 2>>
  /\ p.API = TestAPI
  /\ p.ProductID = "other"
  /\ key = "fake-key"
  /\ reqs[3].url = TestAPI
  /\ reqs[3].license_key = "fake-key"

(***************************************************************************)
(* C30: whatever mix of 5xx answers, other answers, transport failures and *)
(* cancellations a Verify call meets, it hands at most 5 requests to the   *)
(* client, its attempt counter stays within 1..5, and every request but    *)
(* the first directly follows an answer with a status >= 500.              *)
(***************************************************************************)
C30_AtMostFiveAttempts ==
  InCall =>
    /\ try \in 1..5
    /\ Len(reqs) <= 5
    /\ dialed <= Len(reqs)
    /\ Len(statuses) <= Len(reqs)
    /\ Len(statuses) >= Len(reqs) - 1
    /\ \A n \in 1..(Len(reqs) - 1) : statuses[n] = 5

\* four 5xx answers, then the fifth request ran into the client's timeout
C30_Witness ==
  /\ pc = "done"
  /\ try = 5
  /\ Len(reqs) = 5
  /\ dialed = 5
  /\ statuses = <<5, 5, 5, 5>>
  /\ result = ErrFailedCheck("Client.Timeout exceeded")

(***************************************************************************)
(* C29: a call returns on an answer with a status >= 500 to its last       *)
(* request only at the 5th attempt, and the "likely gumroad issue" error   *)
(* it returns carries the body of that 5th answer, whatever the earlier    *)
(* attempts read.                                                          *)
(***************************************************************************)
C29_LastBodyReported ==
  (pc = "done" /\ Answered /\ resp.status >= 500
     /\ Len(statuses) = Len(reqs))
    => /\ try = 5
       /\ Len(statuses) = 5
       /\ result = [msg |-> "license: likely gumroad issue: %s", cause |-> "",
                    bts |-> resp.bts]

\* the fourth attempt read the page "some error", the fifth "<html>"
C29_Witness ==
  /\ pc = "done"
  /\ statuses = <<5, 5, 5, 5, 5>>
  /\ prevRaw = "some error"
  /\ resp.bts.raw = "<html>"
  /\ result.msg = GumroadIssueMsg
  /\ result.bts.raw = "<html>"

\* the call is at one of its waits
Waiting == pc \in {"inflight", "reading", "sleep"}

\* the waits a call can still go through: three for each attempt that can
\* follow the current one, and those left in the current attempt
Rank ==
  IF Waiting
  THEN 3 * (5 - try) + (CASE pc = "inflight" -> 3
                          [] pc = "reading" -> 2
                          [] pc = "sleep" -> 1)
  ELSE 0

(***************************************************************************)
(* C24: every Verify call terminates.  Each step of a call takes it nearer *)
(* to its return (the number of waits it can still go through, at most 15  *)
(* for 5 attempts and 4 sleeps, goes down), and, as each wait on the       *)
(* network and each sleep ends, a call that waits eventually returns.      *)
(***************************************************************************)
C24_VerifyTerminates ==
  /\ [][(Waiting /\ (pc' # pc \/ try' # try))
          => (Rank' < Rank /\ Rank <= 15)]_vars
  /\ (Waiting ~> pc = "done")

\* a call that went through all its fifteen waits and returned
C24_Witness ==
  /\ pc = "done"
  /\ try = 5
  /\ statuses = <<5, 5, 5, 5, 5>>
  /\ Len(sleeps) = 4
  /\ ctx = "live"

(***************************************************************************)
(* C25: results are never cached or reused.  Every Verify call with a live *)
(* context starts from nothing and sends a fresh request, also right after *)
(* a call with the same key that succeeded or failed; a call that returned *)
(* sent a request unless its context was done from the start, and its      *)
(* result is the one its own events give.                                  *)
(***************************************************************************)
C25_EveryCallAsksAgain ==
  /\ [][\A i \in Callers :
          (/\ calls[i].pc \in {"idle", "done"}
           /\ calls'[i] # calls[i]
           /\ calls'[i].ctx = "live")
            => /\ calls'[i].pc = "inflight"
               /\ calls'[i].try = 1
               /\ calls'[i].dialed = 1
               /\ calls'[i].events = <<>>
               /\ calls'[i].sleeps = <<>>]_vars
  /\ [](\A i \in Callers :
          calls[i].pc = "done" =>
            /\ calls[i].events # <<>>
            /\ \/ calls[i].dialed >= 1
               \/ /\ calls[i].ctx # "live"
                  /\ calls[i].events = <<ErrEvent(CtxErr(calls[i].ctx))>>
            /\ calls[i].result =
                 Alone(p, calls[i].key, calls[i].events, 1, <<>>).result)

\* caller a verified "key" with success and now asks again, with a request
\* in flight; nobody else has called
C25_Witness ==
  /\ first["key"] = Nil
  /\ calls["b"].pc = "idle"
  /\ calls["a"].key = "key"
  /\ calls["a"].pc = "inflight"
  /\ calls["a"].try = 1
  /\ calls["a"].dialed = 1

\* the handshake of the call succeeded: a response was obtained
Accepted == InCall /\ statuses # <<>>

\* the handshake of the call failed on the certificate of the endpoint
Rejected ==
  /\ pc = "done"
  /\ result.msg = FailedCheckMsg
  /\ result.cause \in
       {"x509: certificate signed by unknown authority",
        "x509: failed to load system roots and no roots provided"}

(***************************************************************************)
(* C26: the trust root of a verifier's client is captured when NewProduct  *)
(* runs: whatever happens to the trust store of the host afterwards, a     *)
(* later Verify call accepts the certificate of the endpoint if and only   *)
(* if its root was in the store that NewProduct read.                      *)
(***************************************************************************)
C26_TrustFixedAtConstruction ==
  /\ Accepted => /\ captured.readable
                 /\ ServerCert(gp.API) \in captured.roots
  /\ Rejected => \/ ~captured.readable
                 \/ ServerCert(gp.API) \notin captured.roots

(***************************************************************************)
(* C27: when the trust store cannot be read while NewProduct runs with a   *)
(* non-empty identifier, NewProduct returns a verifier for that identifier *)
(* and no error; the client of the verifier has no trust root of its own   *)
(* (nil RootCAs: the default), and no endpoint passes its handshake.       *)
(***************************************************************************)
C27_UnreadableStoreStillConstructs ==
  (captured.loaded /\ ~captured.readable)
    => /\ productID # ""
       /\ newErr = Nil
       /\ pc # "new"
       /\ p.ProductID = productID
       /\ p.API = "https://api.gumroad.com/v2/licenses/verify"
       /\ p.Client.pool = "nil"
       /\ p.Client.RootCAs = {}
       /\ ~Accepted
       /\ (pc = "done" => result # Nil)

\* a verifier constructed while the store was unreadable; the store was
\* repaired afterwards, and a call still failed its handshake
C27_Witness ==
  /\ captured.loaded /\ ~captured.readable
  /\ newErr = Nil
  /\ host.readable
  /\ host.roots = SystemCertPool
  /\ pc = "done"
  /\ key = "key"
  /\ result = ErrFailedCheck(NoRootsError)

(***************************************************************************)
(* C31: a cancellation (or an elapsed deadline) that arrives during the    *)
(* backoff sleep makes Verify abort promptly: once the context is done     *)
(* while time.Sleep runs, no more of the sleep is waited out; the next     *)
(* step of the call is its return, with the rest of the duration unspent.  *)
(***************************************************************************)
C31_CancelInSleepReturnsAtOnce ==
  [][(pc = "sleep" /\ ctx # "live" /\ remaining > 0)
       => /\ pc' = "done"
          /\ remaining' = remaining]_vars

(***************************************************************************)
(* C32: the retry decision precedes the body.  A response with a status of *)
(* 500 or more is never decoded or classified, whatever its body is, a    *)
(* purchase that would pass every check or text that does not decode: the  *)
(* call then sleeps for the next attempt, or, at attempt 5, has returned   *)
(* the "likely gumroad issue" error; it has returned neither success nor   *)
(* the error of the decoder, and has not run the hook.                     *)
(***************************************************************************)
C32_RetryPrecedesBody ==
  (InCall /\ Answered /\ resp.status >= 500 /\ Len(statuses) = Len(reqs))
    => /\ ~classified
       /\ hookCalls = 0
       /\ pc \in {"sleep", "done"}
       /\ pc = "sleep" => /\ Len(reqs) < 5
                          /\ Len(sleeps) = Len(reqs)
                          /\ result = Nil
       /\ pc = "done" => /\ Len(reqs) = 5
                         /\ Len(sleeps) = 4
                         /\ result.msg = "license: likely gumroad issue: %s"
                         /\ result.bts = resp.bts
                         /\ result # Nil
                         /\ result # Err("license: failed check license: %w",
                                         "invalid character")

\* the fourth answer was a 5xx error page, which was retried; the fifth was
\* a 503 whose body is a purchase of this product and key by the expected
\* seller: the call gave up
C32_Witness ==
  /\ pc = "done"
  /\ Len(statuses) = 5
  /\ prevRaw = "<html>"
  /\ resp.status = 503
  /\ LooksValid(resp.bts)
  /\ resp.bts.productID = gp.ProductID
  /\ resp.bts.licenseKey = key
  /\ resp.bts.sellerID = "seller"
  /\ gp.Validate = "sellerCheck"
  /\ result.msg = "license: likely gumroad issue: %s"

\* the last thing call r received is a response with a status below 500
AnsweredBelow500(r) ==
  /\ r.pc = "done"
  /\ r.events # <<>>
  /\ r.events[Len(r.events)].err = ""
  /\ r.events[Len(r.events)].status < 500

\* the body of the last response of call r
LastBody(r) == r.events[Len(r.events)].bts

(***************************************************************************)
(* C33: below 500 the status of a response has no influence on the result. *)
(* Two calls with the same key whose last responses carry the same body    *)
(* under statuses below 500, equal or not (200 and 404), return the same   *)
(* result.  So a 4xx response whose body passes every check yields         *)
(* success, and a 404 with success=false the "invalid license" error with  *)
(* the message of the body.                                                *)
(***************************************************************************)
C33_StatusBelow500Irrelevant ==
  /\ \A i, j \in Callers :
       (/\ AnsweredBelow500(calls[i])
        /\ AnsweredBelow500(calls[j])
        /\ calls[i].key = calls[j].key
        /\ LastBody(calls[i]) = LastBody(calls[j]))
         => calls[i].result = calls[j].result
  /\ \A i \in Callers :
       (AnsweredBelow500(calls[i]) /\ calls[i].status \in 400..499)
         => LET b == LastBody(calls[i])
            IN /\ (/\ LooksValid(b)
                   /\ b.productID = p.ProductID
                   /\ b.licenseKey = calls[i].key
                   /\ b.sellerID = "seller")
                    => calls[i].result = Nil
               /\ (b.valid /\ ~b.success)
                    => calls[i].result =
                         Err("license: invalid license: %s", b.message)

\* the purchase of "key" came back to caller a with status 200, after one
\* retry, and to caller b with status 404: both calls succeeded
C33_Witness ==
  /\ AnsweredBelow500(calls["a"])
  /\ AnsweredBelow500(calls["b"])
  /\ calls["a"].status = 200
  /\ calls["a"].try = 2
  /\ calls["b"].status = 404
  /\ calls["a"].key = "key"
  /\ calls["b"].key = "key"
  /\ LastBody(calls["a"]) = LastBody(calls["b"])
  /\ LooksValid(LastBody(calls["b"]))
  /\ calls["a"].result = Nil
  /\ calls["b"].result = Nil

(***************************************************************************)
(* C34: when Verify has returned, on whatever path, every response body    *)
(* the call obtained from the client has been closed: none is open, and no *)
(* deferred Close is pending.                                              *)
(***************************************************************************)
C34_BodiesClosedOnReturn ==
  pc = "done" => (openBodies = 0 /\ deferred = 0)


====
